---- MODULE Spec2Model ----
(***************************************************************************)
(* Job queue (app/core/db.py), worker loop and intervention gate           *)
(* (app/core/agentic_workflow.py) and the dashboard's writes to the shared *)
(* AGENT_STATE (app/ui/pages/1_Dashboard.py).                              *)
(*                                                                         *)
(* Every worker thread is a process with a program counter pc[w]; each     *)
(* SQL statement is one atomic step (SQLite serialises statements, the     *)
(* code opens no explicit transaction around SELECT + UPDATE), each write  *)
(* to the AGENT_STATE dict is one atomic step (threads interleave between  *)
(* statements).                                                            *)
(***************************************************************************)
EXTENDS Integers, Sequences, FiniteSets, TLC

\* ---------------------------------------------------------------- bounds
MaxWorkers == 2          \* dashboard sessions, each may start one worker thread
MaxUrls == 2             \* distinct job URLs the crawler may offer
MaxClock == 1            \* CURRENT_TIMESTAMP takes the values 0..MaxClock
\* max_iterations is 50 in the source (agentic_workflow.py:352); the model runs
\* the same loop with a scaled bound, and every property is stated in terms of it.
max_iterations == 2

Workers == 1..MaxWorkers
Urls == 1..MaxUrls
Prompts == {"captcha", "2fa"}     \* prompts the model may pass to Pause_For_Human
Inputs == {"x", "y"}              \* texts the operator may type into the dashboard
None == "None"                    \* Python's None

\* ------------------------------------------------------------- the state
VARIABLES
    jobs,        \* table job_queue: sequence of rows, row id = index (AUTOINCREMENT)
    now,         \* CURRENT_TIMESTAMP
    lastEnq,     \* the last add_job_to_queue call: its url and the value it returned
    enqSeen,     \* URLs add_job_to_queue has been called with
    pc,          \* pc[w]: where worker thread w stands
    sel,         \* sel[w]: row id fetched by the SELECT of get_next_pending_job (0: none)
    job,         \* job[w]: dict(job) returned to the worker loop
    claimCount,  \* claimCount[id]: how many times get_next_pending_job returned id
    driver,      \* driver[w]: agent.driver is set (TRUE) or None (FALSE)
    iter,        \* iter[w]: iterations of the for loop consumed so far
    pad,         \* pad[w]: agent_scratchpad, one entry per appended block
    outcome,     \* outcome[w]: how the last run of run_application_flow ended: how (Finished,
                 \* Timeout, Crashed), after how many iterations, how many of them unparsable
    tryRet,      \* tryRet[w]: the value the try/except of run_application_flow returns
    ret,         \* ret[w]: the value run_application_flow hands to its caller
    gprompt,     \* gprompt[w]: parameter prompt of request_manual_intervention
    gval,        \* gval[w]: local value of request_manual_intervention
    requires,    \* AGENT_STATE["requires_manual_input"]
    prompt,      \* AGENT_STATE["manual_input_prompt"]
    value,       \* AGENT_STATE["manual_input_value"]
    agentRunning,\* st.session_state.agent_running of each dashboard session
    uiPc,        \* the dashboard script run: "idle" or "armed" (between line 155 and 160)
    uiInput,     \* user_input of the armed script run
    submitted,   \* the value the dashboard wrote last (None: none yet)
    unread,      \* manual_input_value holds a dashboard write that no call has read yet
    page,        \* page[w]: the ids of the elements the browser window of w shows now
    raw_som_map, \* raw_som_map[w]: the element map captured in the latest iteration
    som_map,     \* som_map[w]: current_state["som_map"], the map the tools resolve ids in
    acted,       \* acted[w]: the element the latest tool call acted on (<<>>: none)
    master_password, \* profile_manager.master_password (None until generated)
    user_profile,    \* profile_manager.user_profile
    pwPc,        \* pwPc[s]: where the script run of session s stands in get_master_password
    pwLocal,     \* pwLocal[s]: local password of generate_master_password
    pwRet,       \* the values get_master_password has returned so far
    html,        \* html_source given to compress_dom: a sequence of elements
    summary,     \* what compress_dom returned: done, and the elements of its lines
    answered,    \* answered[w]: the iteration whose model response w received last
    vision,      \* vision[w]: locals vision_res (res) and vision_summary (summary) of w
    crawl        \* the call of find_and_queue_jobs: its position, locals and return value

vars == <<jobs, now, lastEnq, enqSeen, pc, sel, job, claimCount, driver,
          iter, pad, outcome, tryRet, ret, gprompt, gval, requires, prompt, value,
          agentRunning, uiPc, uiInput, submitted, unread,
          page, raw_som_map, som_map, acted,
          master_password, user_profile, pwPc, pwLocal, pwRet, html, summary, answered, vision, crawl>>

storeVars == <<jobs, now, lastEnq, enqSeen>>
gateVars == <<requires, prompt, value, unread>>
domVars == <<page, raw_som_map, som_map, acted>>
profileVars == <<master_password, user_profile, pwPc, pwLocal, pwRet>>
parseVars == <<html, summary>>
waitVars == <<answered, vision>>
crawlVars == <<crawl>>
sideVars == <<profileVars, parseVars, waitVars, crawlVars>>
uiVars == <<uiPc, uiInput, submitted>>
flowVars == <<iter, pad, outcome, tryRet, ret, gprompt, gval, domVars>>

\* ------------------------------------------------------ profile, page summary
\* user_profile = {}: no field is set.
NoProfile == [name |-> None]

\* No call of compress_dom has returned.
NoSummary == [done |-> FALSE, lines |-> <<>>]

\* ------------------------------------------------------------ job store
NoJob == [id |-> 0, url |-> 0, status |-> None]
NoOutcome == [how |-> None, iters |-> 0, parse |-> 0, text |-> None]

Ids == 1..Len(jobs)

Pending == {i \in Ids : jobs[i].status = "PENDING"}

\* INSERT INTO job_queue (url, ..., status) VALUES (?, ..., 'PENDING'): the
\* defaults of init_db fill logs (NULL, read as '' by COALESCE) and both timestamps.
NewRow(u) ==
    [url |-> u, status |-> "PENDING", logs |-> <<>>, created_at |-> now, updated_at |-> now]

\* Mutant: the table has no UNIQUE constraint on url.
UrlTaken_NoUnique(u) == FALSE

\* url TEXT UNIQUE: the INSERT raises sqlite3.IntegrityError when a row holds the URL.
UrlTaken(u) == \E i \in Ids : jobs[i].url = u

\* add_job_to_queue: True when the row was inserted, False on IntegrityError.
add_job_to_queue(u) ==
    /\ IF UrlTaken(u)
          THEN /\ jobs' = jobs
               /\ lastEnq' = [url |-> u, added |-> FALSE]
          ELSE /\ jobs' = Append(jobs, NewRow(u))
               /\ lastEnq' = [url |-> u, added |-> TRUE]
    /\ enqSeen' = enqSeen \cup {u}
    /\ UNCHANGED now

Enqueue ==
    /\ \E u \in Urls : add_job_to_queue(u)
    /\ UNCHANGED <<pc, sel, job, claimCount, driver, flowVars, gateVars, agentRunning, sideVars, uiVars>>

\* CURRENT_TIMESTAMP advances.
Tick ==
    /\ now < MaxClock
    /\ now' = now + 1
    /\ UNCHANGED <<jobs, lastEnq, enqSeen, pc, sel, job, claimCount, driver,
                   flowVars, gateVars, agentRunning, sideVars, uiVars>>

\* Mutant: the SELECT has no ORDER BY created_at.
OldestPending_Unordered == Pending

\* SELECT * FROM job_queue WHERE status = 'PENDING' ORDER BY created_at ASC LIMIT 1:
\* the rows the statement may return (rows of equal created_at come in any order).
OldestPending == {i \in Pending : \A k \in Pending : jobs[i].created_at <= jobs[k].created_at}

\* UPDATE job_queue SET status = 'IN_PROGRESS', updated_at = CURRENT_TIMESTAMP WHERE id = ?
MarkInProgress(i) ==
    [jobs EXCEPT ![i].status = "IN_PROGRESS", ![i].updated_at = now]

\* Mutant: the UPDATE assigns the message to logs instead of appending it.
AppendLog_Overwrite(logs, msg) == msg

\* Texts are sequences of words, '' is <<>>, || is \o.
\* logs = COALESCE(logs, '') || CASE WHEN logs IS NULL OR logs = '' THEN '' ELSE '\n' END || ?
AppendLog(logs, msg) == logs \o (IF logs = <<>> THEN <<>> ELSE <<"\n">>) \o msg

\* The log messages launch_agent_thread passes to update_job_status.
MsgSuccess == <<"Application", "completed", "successfully.">>
MsgFailed == <<"Agent", "timed", "out", "or", "crashed.">>

\* Mutant: the UPDATE sets the status and drops the log message.
update_job_status_NoLog(i, st, msg) ==
    [jobs EXCEPT ![i].status = st, ![i].updated_at = now]

\* update_job_status(job_id, status, log_message)
update_job_status(i, st, msg) ==
    [jobs EXCEPT ![i].status = st,
                 ![i].logs = AppendLog(jobs[i].logs, msg),
                 ![i].updated_at = now]

\* The orders in which a SELECT may return the rows of the table: each row once.
Orderings ==
    {L \in [1..Len(jobs) -> Ids] : \A a, b \in 1..Len(jobs) : L[a] = L[b] => a = b}

\* Mutant: the SELECT has no ORDER BY updated_at DESC.
get_all_jobs_Unordered == Orderings

\* get_all_jobs: SELECT * FROM job_queue ORDER BY updated_at DESC: the lists (of row
\* ids) the call may return; rows of equal updated_at come in any order.
get_all_jobs ==
    {L \in Orderings :
        \A k \in 1..(Len(jobs) - 1) : jobs[L[k]].updated_at >= jobs[L[k + 1]].updated_at}

\* --------------------------------------------------- dashboard: start worker
\* Mutant: the button handler does not look at st.session_state.agent_running.
StartWorker_NoGuard(s) ==
    /\ agentRunning' = [agentRunning EXCEPT ![s] = TRUE]
    /\ pc' = [pc EXCEPT ![s] = "poll"]
    /\ UNCHANGED <<storeVars, sel, job, claimCount, driver, flowVars, gateVars, uiVars, sideVars>>

\* "Start Autonomous Worker": a session whose agent_running is False sets it and
\* starts a thread running launch_agent_thread (which builds its JobApplicationAgent,
\* driver = None).
StartWorker(s) ==
    /\ ~agentRunning[s]
    /\ agentRunning' = [agentRunning EXCEPT ![s] = TRUE]
    /\ pc' = [pc EXCEPT ![s] = "poll"]
    /\ UNCHANGED <<storeVars, sel, job, claimCount, driver, flowVars, gateVars, uiVars, sideVars>>

\* ------------------------------------------------- get_next_pending_job
\* The SELECT and fetchone: no PENDING row, the function returns None (job = None in
\* launch_agent_thread) and the worker sleeps 5 s and polls again; otherwise the
\* fetched row is kept for the UPDATE.
ClaimSelect(w) ==
    /\ pc[w] = "poll"
    /\ \/ /\ Pending = {}
          /\ job' = [job EXCEPT ![w] = NoJob]
          /\ outcome' = [outcome EXCEPT ![w] = NoOutcome]
          /\ UNCHANGED <<pc, sel>>
       \/ \E i \in OldestPending :
             /\ sel' = [sel EXCEPT ![w] = [id |-> i, url |-> jobs[i].url, status |-> jobs[i].status]]
             /\ pc' = [pc EXCEPT ![w] = "claim_update"]
             /\ UNCHANGED <<job, outcome>>
    /\ UNCHANGED <<storeVars, claimCount, driver, iter, pad, tryRet, ret, gprompt, gval,
                   gateVars, agentRunning, sideVars, uiVars, domVars>>

\* The UPDATE ... WHERE id = ?, the commit and return dict(job): the row as fetched.
\* job[w] stands for job, job_id and url of launch_agent_thread, which keep their
\* values until the next job is pulled; success (ret) and the note of how the
\* previous run ended are not read again and start afresh here.
ClaimUpdate(w) ==
    /\ pc[w] = "claim_update"
    /\ jobs' = MarkInProgress(sel[w].id)
    /\ job' = [job EXCEPT ![w] = sel[w]]
    /\ claimCount' = [claimCount EXCEPT ![sel[w].id] = @ + 1]
    /\ sel' = [sel EXCEPT ![w] = NoJob]
    /\ outcome' = [outcome EXCEPT ![w] = NoOutcome]
    /\ ret' = [ret EXCEPT ![w] = FALSE]
    /\ pc' = [pc EXCEPT ![w] = "flow_start"]
    /\ UNCHANGED <<now, lastEnq, enqSeen, driver, iter, pad, tryRet, gprompt, gval,
                   gateVars, agentRunning, sideVars, uiVars, domVars>>

\* The except clause of get_next_pending_job (lines 81-83): sqlite3.connect or the
\* SELECT raises (the database file is unreachable or locked); the error is logged
\* and the function returns None.
ClaimSelectError(w) ==
    /\ pc[w] = "poll"
    /\ job' = [job EXCEPT ![w] = NoJob]
    /\ outcome' = [outcome EXCEPT ![w] = NoOutcome]
    /\ UNCHANGED <<storeVars, pc, sel, claimCount, driver, iter, pad, tryRet, ret, gprompt, gval,
                   gateVars, agentRunning, sideVars, uiVars, domVars>>

\* The same clause when the UPDATE or the commit raises: the connection is closed
\* without a commit, the row stays as it was, and the function returns None.
ClaimUpdateError(w) ==
    /\ pc[w] = "claim_update"
    /\ job' = [job EXCEPT ![w] = NoJob]
    /\ sel' = [sel EXCEPT ![w] = NoJob]
    /\ outcome' = [outcome EXCEPT ![w] = NoOutcome]
    /\ pc' = [pc EXCEPT ![w] = "poll"]
    /\ UNCHANGED <<storeVars, claimCount, driver, iter, pad, tryRet, ret, gprompt, gval,
                   gateVars, agentRunning, sideVars, uiVars, domVars>>

\* ------------------------------------------------ run_application_flow
\* Lines 223-351: the browser is created when the agent has none, the page is
\* loaded, and the loop starts with an empty scratchpad.
FlowStart(w) ==
    /\ pc[w] = "flow_start"
    /\ driver' = [driver EXCEPT ![w] = TRUE]
    /\ som_map' = [som_map EXCEPT ![w] = {}]
    /\ pad' = [pad EXCEPT ![w] = <<>>]
    /\ iter' = [iter EXCEPT ![w] = 0]
    /\ pc' = [pc EXCEPT ![w] = "loop"]
    /\ UNCHANGED <<storeVars, sel, job, claimCount, outcome, tryRet, ret, gprompt, gval,
                   gateVars, agentRunning, sideVars, uiVars, page, raw_som_map, acted>>

\* ------------------------------------------------------- the tools
\* Strings the tools take apart are sequences of characters.
\* The names of the Tool objects of lines 252-298.
Catalogue ==
    {"Click_Element_By_ID", "Type_Text_By_ID", "Upload_File_By_ID", "Get_Profile_Data",
     "Infer_Answer", "Pause_For_Human", "Scroll_Down", "Scroll_Up", "Go_Back"}

\* The tool names a decision may carry: the catalogue and a name outside it.
ToolNames == Catalogue \cup {"Submit_Form"}

\* The tool inputs a decision may carry: "1", " 2", "1|J", "".
ToolInputs == {<<"1">>, <<" ", "2">>, <<"1", "|", "J">>, <<>>}

\* The keys of the element map: ids the injected script gives to elements.
NodeIds == {<<"1">>}

\* The element maps inject_and_get_map may return.
Pages == SUBSET NodeIds

\* The final answers of an AgentFinish, the texts of the exceptions of the browser,
\* session and network layers.
FinalAnswers == {"submitted"}
Errors == {"WebDriverException"}

\* str.split('|')
RECURSIVE Split(_)
Split(str) ==
    IF \A k \in 1..Len(str) : str[k] # "|"
       THEN <<str>>
       ELSE LET at == CHOOSE k \in 1..Len(str) : str[k] = "|" /\ \A j \in 1..(k - 1) : str[j] # "|"
            IN  <<SubSeq(str, 1, at - 1)>> \o Split(SubSeq(str, at + 1, Len(str)))

\* str.strip()
RECURSIVE Strip(_)
Strip(str) ==
    IF str = <<>> THEN str
    ELSE IF Head(str) = " " THEN Strip(Tail(str))
    ELSE IF str[Len(str)] = " " THEN Strip(SubSeq(str, 1, Len(str) - 1))
    ELSE str

\* What a call of a tool function comes to: the observation it returns and the
\* element it acted on, or the exception it raises.
Returns(obs, on) == [raises |-> FALSE, obs |-> obs, on |-> on]
Raises(exc) == [raises |-> TRUE, obs |-> exc, on |-> <<>>]

\* trigger_click_by_id, trigger_type_by_id, trigger_upload_by_id of
\* app/core/som_injector.py: an id of the map is acted on, an id outside it yields an
\* observation saying the id is unknown and no element is touched.
TriggerById(map, node_id) ==
    IF node_id \in map THEN Returns("acted", node_id) ELSE Returns("unknown_id", <<>>)

\* The func of the Type_Text_By_ID and Upload_File_By_ID tools (lines 260 and 265):
\* args.split('|')[0].strip() and args.split('|')[1]; the index raises IndexError
\* when args holds no '|'.
TriggerWithArgs(map, args) ==
    IF Len(Split(args)) < 2
       THEN Raises("IndexError")
       ELSE TriggerById(map, Strip(Split(args)[1]))

\* lines 427-431: tool_obj = next((t for t in tools if t.name == tool_name), None);
\* observation = tool_obj.func(tool_input), or "Tool ... not found.".
Dispatch(t, a, map) ==
    IF t \notin Catalogue THEN Returns("unknown_tool", <<>>)
    ELSE IF t = "Click_Element_By_ID" THEN TriggerById(map, Strip(a))
    ELSE IF t \in {"Type_Text_By_ID", "Upload_File_By_ID"} THEN TriggerWithArgs(map, a)
    ELSE Returns("tool", <<>>)

\* The value a return statement of the try block or of an except handler asks for.
TryReturn(how) == how = "Finished"

\* The finally clause (lines 443-446) ends in "return False": a return in a finally
\* clause replaces the value the try block or the handler was returning.
FinallyReturn(r) == FALSE

\* The try block ends: return True (Finish), the loop's else branch (Timeout), or
\* the handler of "except Exception" (Crashed). text is what update_state is given
\* on the way out: the final answer of a Finish, the text of the exception of a crash.
EndTry(w, how, text) ==
    /\ outcome' = [outcome EXCEPT ![w] =
                      [how |-> how, iters |-> Len(pad[w]),
                       parse |-> Cardinality({k \in 1..Len(pad[w]) : pad[w][k] = "parse"}),
                       text |-> text]]
    /\ tryRet' = [tryRet EXCEPT ![w] = TryReturn(how)]
    /\ pc' = [pc EXCEPT ![w] = "finally"]

\* Mutant: the loop runs one iteration too many (range(max_iterations + 1)).
InLoop_OneMore(w) == pc[w] = "loop" /\ iter[w] <= max_iterations

\* for i in range(max_iterations): the body runs while iterations are left.
InLoop(w) == pc[w] = "loop" /\ iter[w] < max_iterations

\* Mutant: the scratchpad is assigned (=) instead of extended (+=).
Observe_Overwrite(w, entry) ==
    /\ pad' = [pad EXCEPT ![w] = <<entry>>]
    /\ iter' = [iter EXCEPT ![w] = @ + 1]

\* One more block appended to agent_scratchpad, one more iteration consumed.
Observe(w, entry) ==
    /\ pad' = [pad EXCEPT ![w] = Append(@, entry)]
    /\ iter' = [iter EXCEPT ![w] = @ + 1]

\* Mutant: line 374 is missing, the tools keep the map of the first capture.
SetSomMap_Stale(old, new) == old

\* line 374: current_state["som_map"] = raw_som_map
SetSomMap(old, new) == new

\* lines 372-374: inject_and_get_map(self.driver) returns the map of the elements
\* the page shows now; the tools' shared current_state takes it.
Perceive(w) ==
    /\ raw_som_map' = [raw_som_map EXCEPT ![w] = page[w]]
    /\ som_map' = [som_map EXCEPT ![w] = SetSomMap(som_map[w], page[w])]

\* The site changes what the window shows (a navigation, a script, the page's
\* reaction to a click).
PageChange(w) ==
    /\ pc[w] = "loop"
    /\ \E m \in Pages \ {page[w]} : page' = [page EXCEPT ![w] = m]
    /\ UNCHANGED <<storeVars, pc, sel, job, claimCount, driver, iter, pad, outcome, tryRet, ret,
                   gprompt, gval, gateVars, agentRunning, sideVars, uiVars, raw_som_map, som_map, acted>>

\* Mutant: the dialog is handled without consuming an iteration of the for loop.
HandleAlert_NoCount(w) ==
    /\ InLoop(w)
    /\ pad' = [pad EXCEPT ![w] = Append(@, "alert")]
    /\ UNCHANGED <<storeVars, pc, sel, job, claimCount, driver, iter, outcome, tryRet, ret,
                   gprompt, gval, gateVars, agentRunning, sideVars, uiVars, domVars>>

\* driver.title raises UnexpectedAlertPresentException: the alert is accepted, its
\* text appended as an observation, "continue".
HandleAlert(w) ==
    /\ InLoop(w)
    /\ Observe(w, "alert")
    /\ UNCHANGED <<storeVars, pc, sel, job, claimCount, driver, outcome, tryRet, ret,
                   gprompt, gval, gateVars, agentRunning, sideVars, uiVars, domVars>>

\* agent.invoke raises: the parse error is appended as an observation, "continue".
ParseError(w) ==
    /\ InLoop(w)
    /\ Perceive(w)
    /\ Observe(w, "parse")
    /\ UNCHANGED <<storeVars, pc, sel, job, claimCount, driver, outcome, tryRet, ret,
                   gprompt, gval, gateVars, agentRunning, sideVars, uiVars, page, acted>>

\* agent.invoke returns an AgentFinish: its output goes to update_state, "return True".
Finish(w) ==
    /\ InLoop(w)
    /\ Perceive(w)
    /\ \E f \in FinalAnswers : EndTry(w, "Finished", f)
    /\ UNCHANGED <<storeVars, sel, job, claimCount, driver, iter, pad, ret, gprompt, gval,
                   gateVars, agentRunning, sideVars, uiVars, page, acted>>

\* agent.invoke returns the AgentAction (t, a), t other than Pause_For_Human: the tool
\* is looked up and called (lines 427-431) and its observation is
\* appended (line 434); an exception of the call leaves the loop for the handler of
\* "except Exception" (line 440).
ActOn(w, t, a) ==
    /\ InLoop(w)
    /\ t # "Pause_For_Human"
    /\ Perceive(w)
    /\ LET r == Dispatch(t, a, SetSomMap(som_map[w], page[w]))
       IN  IF r.raises
              THEN /\ EndTry(w, "Crashed", r.obs)
                   /\ UNCHANGED <<iter, pad, acted>>
              ELSE /\ Observe(w, r.obs)
                   /\ acted' = [acted EXCEPT ![w] = r.on]
                   /\ UNCHANGED <<pc, outcome, tryRet>>
    /\ UNCHANGED <<storeVars, sel, job, claimCount, driver, ret,
                   gprompt, gval, gateVars, agentRunning, sideVars, uiVars, page>>

Act(w) == \E t \in ToolNames, a \in ToolInputs : ActOn(w, t, a)

\* agent.invoke returns an AgentAction naming Pause_For_Human: tool_obj.func is
\* request_manual_intervention, called with the model's tool_input.
Pause(w) ==
    /\ InLoop(w)
    /\ Perceive(w)
    /\ \E p \in Prompts : gprompt' = [gprompt EXCEPT ![w] = p]
    /\ pc' = [pc EXCEPT ![w] = "g200"]
    /\ UNCHANGED <<storeVars, sel, job, claimCount, driver, iter, pad, outcome, tryRet, ret,
                   gval, gateVars, agentRunning, sideVars, uiVars, page, acted>>

\* An exception of the browser, session or network layer inside the try block
\* (initialize_browser or driver.get before the loop, where the driver may or may not
\* have been created; perception or a tool inside it): "except Exception" logs it
\* and returns False.
Crash(w) ==
    /\ pc[w] = "flow_start" \/ InLoop(w)
    /\ \E e \in Errors : EndTry(w, "Crashed", e)
    /\ \E d \in {driver[w], pc[w] = "flow_start"} : driver' = [driver EXCEPT ![w] = d \/ driver[w]]
    /\ UNCHANGED <<storeVars, sel, job, claimCount, iter, pad, ret, gprompt, gval,
                   gateVars, agentRunning, sideVars, uiVars, domVars>>

\* range(max_iterations) is exhausted: the for loop's else branch, "return False".
Timeout(w) ==
    /\ pc[w] = "loop"
    /\ iter[w] >= max_iterations
    /\ EndTry(w, "Timeout", None)
    /\ UNCHANGED <<storeVars, sel, job, claimCount, driver, iter, pad, ret, gprompt, gval,
                   gateVars, agentRunning, sideVars, uiVars, domVars>>

\* The finally clause runs last and decides the value the caller receives; the
\* locals of run_application_flow end with the call.
Finally(w) ==
    /\ pc[w] = "finally"
    /\ ret' = [ret EXCEPT ![w] = FinallyReturn(tryRet[w])]
    /\ tryRet' = [tryRet EXCEPT ![w] = FALSE]
    /\ iter' = [iter EXCEPT ![w] = 0]
    /\ pad' = [pad EXCEPT ![w] = <<>>]
    /\ raw_som_map' = [raw_som_map EXCEPT ![w] = {}]
    /\ som_map' = [som_map EXCEPT ![w] = {}]
    /\ acted' = [acted EXCEPT ![w] = <<>>]
    /\ pc' = [pc EXCEPT ![w] = "report"]
    /\ UNCHANGED <<storeVars, sel, job, claimCount, driver, outcome, gprompt, gval,
                   gateVars, agentRunning, sideVars, uiVars, page>>

\* ------------------------------------------- request_manual_intervention
GateRest(w) ==
    UNCHANGED <<storeVars, sel, job, claimCount, driver, iter, pad, outcome, tryRet, ret,
                gprompt, agentRunning, sideVars, uiVars, domVars>>

\* line 200: AGENT_STATE["requires_manual_input"] = True
GateSetRequires(w) ==
    /\ pc[w] = "g200"
    /\ requires' = TRUE
    /\ pc' = [pc EXCEPT ![w] = "g201"]
    /\ UNCHANGED <<prompt, value, unread, gval>>
    /\ GateRest(w)

\* line 201: AGENT_STATE["manual_input_prompt"] = prompt
GateSetPrompt(w) ==
    /\ pc[w] = "g201"
    /\ prompt' = gprompt[w]
    /\ pc' = [pc EXCEPT ![w] = "g202"]
    /\ UNCHANGED <<requires, value, unread, gval>>
    /\ GateRest(w)

\* line 202: AGENT_STATE["manual_input_value"] = None
GateResetValue(w) ==
    /\ pc[w] = "g202"
    /\ value' = None
    /\ unread' = FALSE
    /\ pc' = [pc EXCEPT ![w] = "g205"]
    /\ UNCHANGED <<requires, prompt, gval>>
    /\ GateRest(w)

\* lines 205-206: while AGENT_STATE["manual_input_value"] is None: time.sleep(1)
GateWait(w) ==
    /\ pc[w] = "g205"
    /\ value # None
    /\ pc' = [pc EXCEPT ![w] = "g208"]
    /\ UNCHANGED <<gateVars, gval>>
    /\ GateRest(w)

\* line 208: value = AGENT_STATE["manual_input_value"]
GateRead(w) ==
    /\ pc[w] = "g208"
    /\ gval' = [gval EXCEPT ![w] = value]
    /\ unread' = FALSE
    /\ pc' = [pc EXCEPT ![w] = "g211"]
    /\ UNCHANGED <<requires, prompt, value>>
    /\ GateRest(w)

\* line 211: AGENT_STATE["requires_manual_input"] = False
GateClearRequires(w) ==
    /\ pc[w] = "g211"
    /\ requires' = FALSE
    /\ pc' = [pc EXCEPT ![w] = "g212"]
    /\ UNCHANGED <<prompt, value, unread, gval>>
    /\ GateRest(w)

\* line 212: AGENT_STATE["manual_input_prompt"] = ""
GateClearPrompt(w) ==
    /\ pc[w] = "g212"
    /\ prompt' = ""
    /\ pc' = [pc EXCEPT ![w] = "g213"]
    /\ UNCHANGED <<requires, value, unread, gval>>
    /\ GateRest(w)

\* line 213: AGENT_STATE["manual_input_value"] = None
GateClearValue(w) ==
    /\ pc[w] = "g213"
    /\ value' = None
    /\ unread' = FALSE
    /\ pc' = [pc EXCEPT ![w] = "g216"]
    /\ UNCHANGED <<requires, prompt, gval>>
    /\ GateRest(w)

\* Mutant: the value the gate returns is dropped instead of appended (line 434 missing).
GateReturn_NoObservation(w) ==
    /\ pc[w] = "g216"
    /\ iter' = [iter EXCEPT ![w] = @ + 1]
    /\ gprompt' = [gprompt EXCEPT ![w] = None]
    /\ gval' = [gval EXCEPT ![w] = None]
    /\ pc' = [pc EXCEPT ![w] = "loop"]
    /\ UNCHANGED <<storeVars, sel, job, claimCount, driver, pad, outcome, tryRet, ret,
                   gateVars, agentRunning, sideVars, uiVars, domVars>>

\* lines 215-216 and 429-435: return value; the caller appends it as the
\* observation of the Pause_For_Human action and goes to the next iteration.
GateReturn(w) ==
    /\ pc[w] = "g216"
    /\ Observe(w, gval[w])
    /\ gprompt' = [gprompt EXCEPT ![w] = None]
    /\ gval' = [gval EXCEPT ![w] = None]
    /\ pc' = [pc EXCEPT ![w] = "loop"]
    /\ UNCHANGED <<storeVars, sel, job, claimCount, driver, outcome, tryRet, ret,
                   gateVars, agentRunning, sideVars, uiVars, domVars>>

\* ------------------------------------- dashboard: manual intervention block
\* line 155: a script run finds requires_manual_input set and renders the block;
\* the operator's text is user_input.
UICheck ==
    /\ uiPc = "idle"
    /\ requires
    /\ uiPc' = "armed"
    /\ \E v \in Inputs : uiInput' = v
    /\ UNCHANGED <<storeVars, pc, sel, job, claimCount, driver, flowVars, gateVars,
                   agentRunning, sideVars, submitted>>

\* lines 159-161: the button is pressed: AGENT_STATE["manual_input_value"] = user_input
UISubmit ==
    /\ uiPc = "armed"
    /\ value' = uiInput
    /\ submitted' = uiInput
    /\ unread' = TRUE
    /\ uiPc' = "idle"
    /\ uiInput' = None
    /\ UNCHANGED <<storeVars, pc, sel, job, claimCount, driver, flowVars, requires, prompt,
                   agentRunning, sideVars>>

\* ---------------------------------------------------- launch_agent_thread
\* Mutant: the failure branch leaves the browser session as it is.
Report_KeepSession(w) ==
    /\ pc[w] = "report"
    /\ IF ret[w]
          THEN /\ jobs' = update_job_status(job[w].id, "SUCCESS", MsgSuccess)
               /\ pc' = [pc EXCEPT ![w] = "poll"]
          ELSE /\ pc' = [pc EXCEPT ![w] = "mark_failed"]
               /\ UNCHANGED jobs
    /\ UNCHANGED <<now, lastEnq, enqSeen, sel, job, claimCount, driver, flowVars, gateVars,
                   agentRunning, sideVars, uiVars>>

\* lines 467-473: success: update_job_status(job_id, "SUCCESS", ...) and back to
\* the head of the while loop; failure: agent.driver.quit(); agent.driver = None.
Report(w) ==
    /\ pc[w] = "report"
    /\ IF ret[w]
          THEN /\ jobs' = update_job_status(job[w].id, "SUCCESS", MsgSuccess)
               /\ pc' = [pc EXCEPT ![w] = "poll"]
               /\ UNCHANGED driver
          ELSE /\ driver' = [driver EXCEPT ![w] = FALSE]
               /\ pc' = [pc EXCEPT ![w] = "mark_failed"]
               /\ UNCHANGED jobs
    /\ UNCHANGED <<now, lastEnq, enqSeen, sel, job, claimCount, flowVars, gateVars,
                   agentRunning, sideVars, uiVars>>

\* Mutant: the failure branch goes back to polling without the status update.
ReportFailure_Skipped(w) ==
    /\ pc[w] = "mark_failed"
    /\ pc' = [pc EXCEPT ![w] = "poll"]
    /\ UNCHANGED <<storeVars, sel, job, claimCount, driver, flowVars, gateVars,
                   agentRunning, sideVars, uiVars>>

\* line 474: update_job_status(job_id, "FAILED", "Agent timed out or crashed.")
ReportFailure(w) ==
    /\ pc[w] = "mark_failed"
    /\ jobs' = update_job_status(job[w].id, "FAILED", MsgFailed)
    /\ pc' = [pc EXCEPT ![w] = "poll"]
    /\ UNCHANGED <<now, lastEnq, enqSeen, sel, job, claimCount, driver, flowVars, gateVars,
                   agentRunning, sideVars, uiVars>>

\* The text an operator gives when marking a job FAILED.
MsgAborted == <<"Aborted", "by", "operator.">>

\* A caller outside the worker thread (the table is shared by every process that
\* opens DB_PATH) marks a running job FAILED: update_job_status(i, "FAILED", ...).
AbortJob(i) ==
    /\ jobs[i].status = "IN_PROGRESS"
    /\ jobs' = update_job_status(i, "FAILED", MsgAborted)
    /\ UNCHANGED <<now, lastEnq, enqSeen, pc, sel, job, claimCount, driver, flowVars, gateVars,
                   agentRunning, sideVars, uiVars>>

\* ------------------------------------------------------ specification
\* No job queued yet (init_db has created the empty table).
InitStore ==
    /\ jobs = <<>>
    /\ now = 0
    /\ lastEnq = [url |-> 0, added |-> FALSE]
    /\ enqSeen = {}

\* No worker thread started, AGENT_STATE as the module creates it (lines 32-39).
InitAgents ==
    /\ pc = [w \in Workers |-> "off"]
    /\ sel = [w \in Workers |-> NoJob]
    /\ job = [w \in Workers |-> NoJob]
    /\ claimCount = [i \in 1..MaxUrls |-> 0]
    /\ driver = [w \in Workers |-> FALSE]
    /\ iter = [w \in Workers |-> 0]
    /\ pad = [w \in Workers |-> <<>>]
    /\ outcome = [w \in Workers |-> NoOutcome]
    /\ tryRet = [w \in Workers |-> FALSE]
    /\ ret = [w \in Workers |-> FALSE]
    /\ gprompt = [w \in Workers |-> None]
    /\ gval = [w \in Workers |-> None]
    /\ requires = FALSE
    /\ prompt = ""
    /\ value = None
    /\ agentRunning = [s \in Workers |-> FALSE]
    /\ uiPc = "idle"
    /\ uiInput = None
    /\ submitted = None
    /\ unread = FALSE
    /\ page = [w \in Workers |-> {}]
    /\ raw_som_map = [w \in Workers |-> {}]
    /\ som_map = [w \in Workers |-> {}]
    /\ acted = [w \in Workers |-> <<>>]

\* The module-level singleton profile_manager = ProfileManager() (credential_logic.py
\* lines 11-13 and 59): no password, an empty profile; no script run is inside
\* get_master_password.
InitProfile ==
    /\ master_password = None
    /\ user_profile = NoProfile
    /\ pwPc = [s \in Workers |-> "idle"]
    /\ pwLocal = [s \in Workers |-> None]
    /\ pwRet = {}

\* compress_dom has not been called.
InitParse ==
    /\ html = <<>>
    /\ summary = NoSummary

\* No request to a model server has been answered.
NoVision == [res |-> [success |-> FALSE, raw_response |-> None, error |-> None], summary |-> None]

InitWait ==
    /\ answered = [w \in Workers |-> 0]
    /\ vision = [w \in Workers |-> NoVision]

\* No crawl is under way.
NoCrawl == [pc |-> "idle", links |-> <<>>, k |-> 0, jobs_added |-> 0, is_direct_url |-> FALSE,
            careers_url |-> 0, returned |-> 0]
InitCrawl == crawl = NoCrawl

Init == InitStore /\ InitAgents /\ InitProfile /\ InitParse /\ InitWait /\ InitCrawl

\* get_next_pending_job, the frame of run_application_flow and the status report.
Claiming(w) ==
    \/ ClaimSelect(w) \/ ClaimUpdate(w) \/ FlowStart(w)
    \/ Finally(w) \/ Report(w) \/ ReportFailure(w)

\* The decisions that end an iteration without a tool, and the ends of the loop.
Deciding(w) == ParseError(w) \/ Finish(w) \/ Crash(w) \/ Timeout(w)

\* Native dialogs and tools other than Pause_For_Human.
Acting(w) == HandleAlert(w) \/ Act(w)

\* Pause_For_Human and request_manual_intervention.
Intervening(w) ==
    \/ Pause(w)
    \/ GateSetRequires(w) \/ GateSetPrompt(w) \/ GateResetValue(w) \/ GateWait(w)
    \/ GateRead(w) \/ GateClearRequires(w) \/ GateClearPrompt(w) \/ GateClearValue(w)
    \/ GateReturn(w)

Worker(w) == Claiming(w) \/ Deciding(w) \/ Acting(w) \/ Intervening(w)

\* One dashboard session, hence one worker thread: every operation of the program.
Next ==
    \/ Enqueue
    \/ Tick
    \/ StartWorker(1)
    \/ Worker(1)
    \/ UICheck
    \/ UISubmit

Spec == Init /\ [][Next]_vars

\* Several dashboard sessions, each with its own agent_running flag, hence several
\* worker threads on one job_queue table. The decision engine never asks for a tool.
NextRace ==
    \/ Enqueue
    \/ Tick
    \/ \E s \in Workers : StartWorker(s)
    \/ \E w \in Workers : Claiming(w) \/ Deciding(w)

SpecRace == Init /\ [][NextRace]_vars

\* Several worker threads sharing AGENT_STATE, taken up at a point every one of them
\* has reached: each has pulled its own job and stands at the head of the decision
\* loop with a fresh browser. The decision engine asks for Pause_For_Human or finishes.
InitGate ==
    /\ jobs = [i \in 1..MaxWorkers |->
                 [url |-> i, status |-> "IN_PROGRESS", logs |-> <<>>, created_at |-> 0, updated_at |-> 0]]
    /\ now = 0
    /\ lastEnq = [url |-> MaxWorkers, added |-> TRUE]
    /\ enqSeen = 1..MaxWorkers
    /\ pc = [w \in Workers |-> "loop"]
    /\ sel = [w \in Workers |-> NoJob]
    /\ job = [w \in Workers |-> [id |-> w, url |-> w, status |-> "PENDING"]]
    /\ claimCount = [i \in 1..MaxUrls |-> IF i <= MaxWorkers THEN 1 ELSE 0]
    /\ driver = [w \in Workers |-> TRUE]
    /\ iter = [w \in Workers |-> 0]
    /\ pad = [w \in Workers |-> <<>>]
    /\ outcome = [w \in Workers |-> NoOutcome]
    /\ tryRet = [w \in Workers |-> FALSE]
    /\ ret = [w \in Workers |-> FALSE]
    /\ gprompt = [w \in Workers |-> None]
    /\ gval = [w \in Workers |-> None]
    /\ requires = FALSE
    /\ prompt = ""
    /\ value = None
    /\ agentRunning = [s \in Workers |-> TRUE]
    /\ uiPc = "idle"
    /\ uiInput = None
    /\ submitted = None
    /\ unread = FALSE
    /\ page = [w \in Workers |-> {}]
    /\ raw_som_map = [w \in Workers |-> {}]
    /\ som_map = [w \in Workers |-> {}]
    /\ acted = [w \in Workers |-> <<>>]
    /\ InitProfile
    /\ InitParse
    /\ InitWait
    /\ InitCrawl

NextGate ==
    \/ \E w \in Workers :
          Intervening(w) \/ Finish(w) \/ Timeout(w) \/ Finally(w) \/ Report(w) \/ ReportFailure(w)
    \/ UICheck
    \/ UISubmit

SpecGate == InitGate /\ [][NextGate]_vars

\* One worker at the head of its decision loop on a site whose page changes under it:
\* every decision the engine may take but Pause_For_Human, to the report of the job.
NextTools ==
    \/ PageChange(1)
    \/ Acting(1)
    \/ Deciding(1)
    \/ Finally(1) \/ Report(1) \/ ReportFailure(1)

SpecTools == InitGate /\ [][NextTools]_vars

\* update_job_status(job_id, "FAILED", ...) in which sqlite3 raises: the except
\* clause (db.py:104-105) logs the error and the function returns as after a
\* successful write; the row is unchanged and the worker goes back to polling.
ReportFailureError(w) ==
    /\ pc[w] = "mark_failed"
    /\ pc' = [pc EXCEPT ![w] = "poll"]
    /\ UNCHANGED <<storeVars, sel, job, claimCount, driver, flowVars, gateVars,
                   agentRunning, sideVars, uiVars>>

\* agent.driver.quit() raises (line 472): nothing in launch_agent_thread catches it,
\* the thread ends before update_job_status is called.
TeardownError(w) ==
    /\ pc[w] = "report"
    /\ ~ret[w]
    /\ driver[w]
    /\ pc' = [pc EXCEPT ![w] = "dead"]
    /\ UNCHANGED <<storeVars, sel, job, claimCount, driver, flowVars, gateVars,
                   agentRunning, sideVars, uiVars>>

\* The store fails under get_next_pending_job or update_job_status, the browser
\* under quit(): one worker, no tools.
NextFault ==
    \/ Enqueue
    \/ Tick
    \/ StartWorker(1)
    \/ Claiming(1)
    \/ Deciding(1)
    \/ ClaimSelectError(1)
    \/ ClaimUpdateError(1)
    \/ ReportFailureError(1)
    \/ TeardownError(1)

SpecFault == Init /\ [][NextFault]_vars

\* A running job is marked FAILED from outside while its worker may be waiting in
\* request_manual_intervention. The worker thread runs whenever it can take a step
\* (nothing but the gate's wait loop holds it); the operator is under no obligation
\* to answer.
RunGate(w) ==
    Intervening(w) \/ Finish(w) \/ Timeout(w) \/ Finally(w) \/ Report(w) \/ ReportFailure(w)

NextAbort ==
    \/ \E i \in Ids : AbortJob(i)
    \/ RunGate(1)
    \/ UICheck
    \/ UISubmit

SpecAbort == InitGate /\ [][NextAbort]_vars /\ WF_vars(RunGate(1))

\* One worker whose iterations wait for the two model servers. SendVision is the
\* iteration up to requests.post of _run_vision_prompt (vision_engine.py:77, no
\* timeout argument); VisionReturns is the end of that call, by a response or by an
\* exception (both come back as a dict), after which agent.invoke sends the completion
\* request through Ollama(...) (line 246, no timeout argument); LlmReturns is the end
\* of that request. A decision taken from "loop" without these steps is an iteration
\* whose requests were answered at once. answered[w] is the number of the iteration
\* whose answer the worker last received.
SendVision(w) ==
    /\ InLoop(w)
    /\ answered[w] <= iter[w]
    /\ Perceive(w)
    /\ pc' = [pc EXCEPT ![w] = "vision_wait"]
    /\ UNCHANGED <<storeVars, sel, job, claimCount, driver, iter, pad, outcome, tryRet, ret,
                   gprompt, gval, gateVars, agentRunning, sideVars, uiVars, page, acted>>

\* The dict _run_vision_prompt returns: on success the model's text under
\* raw_response (vision_engine.py:86-89), on any exception success False and the
\* error text, no raw_response (lines 90-94).
VisionResult(ok) ==
    IF ok THEN [success |-> TRUE, raw_response |-> "layout", error |-> None]
          ELSE [success |-> FALSE, raw_response |-> None, error |-> "ConnectionError"]

\* line 392: vision_res.get('raw_response', 'Failed to get vision summary.')
VisionSummary(vision_res) ==
    IF vision_res.raw_response = None THEN "Failed to get vision summary."
                                      ELSE vision_res.raw_response

\* Mutant: _run_vision_prompt lets the exception of the request through, and
\* "except Exception" of run_application_flow (line 440) ends the run.
VisionReturns_Raises(w) ==
    /\ pc[w] = "vision_wait"
    /\ \E ok \in BOOLEAN :
          IF ok
             THEN /\ vision' = [vision EXCEPT ![w] =
                                  [res |-> VisionResult(ok), summary |-> VisionSummary(VisionResult(ok))]]
                  /\ pc' = [pc EXCEPT ![w] = "llm_wait"]
                  /\ UNCHANGED <<outcome, tryRet>>
             ELSE /\ EndTry(w, "Crashed", "ConnectionError")
                  /\ UNCHANGED vision
    /\ UNCHANGED <<storeVars, sel, job, claimCount, driver, iter, pad, ret, gprompt, gval,
                   domVars, gateVars, agentRunning, profileVars, parseVars, crawlVars, answered, uiVars>>

\* The vision request ends, with a response or with an exception that
\* _run_vision_prompt turns into a dict; line 392 takes the summary and agent.invoke
\* sends the completion request.
VisionReturns(w) ==
    /\ pc[w] = "vision_wait"
    /\ \E ok \in BOOLEAN :
          vision' = [vision EXCEPT ![w] =
                       [res |-> VisionResult(ok), summary |-> VisionSummary(VisionResult(ok))]]
    /\ pc' = [pc EXCEPT ![w] = "llm_wait"]
    /\ UNCHANGED <<outcome, tryRet>>
    /\ UNCHANGED <<storeVars, sel, job, claimCount, driver, iter, pad, ret, gprompt, gval,
                   domVars, gateVars, agentRunning, profileVars, parseVars, crawlVars, answered, uiVars>>

LlmReturns(w) ==
    /\ pc[w] = "llm_wait"
    /\ pc' = [pc EXCEPT ![w] = "loop"]
    /\ answered' = [answered EXCEPT ![w] = iter[w] + 1]
    /\ UNCHANGED <<storeVars, sel, job, claimCount, driver, flowVars, gateVars, agentRunning,
                   profileVars, parseVars, crawlVars, vision, uiVars>>

\* The steps the worker thread takes by itself.
RunHang(w) ==
    SendVision(w) \/ Acting(w) \/ Deciding(w) \/ Finally(w) \/ Report(w) \/ ReportFailure(w)

NextHang ==
    \/ RunHang(1)
    \/ VisionReturns(1)
    \/ LlmReturns(1)

\* The worker thread runs whenever it can; a model server is under no obligation to
\* answer.
SpecHang == InitGate /\ [][NextHang]_vars /\ WF_vars(RunHang(1))

\* A native dialog opens after the probe of driver.title (line 360) has passed: the
\* next WebDriver command of the iteration (inject_and_get_map at line 373,
\* save_screenshot at line 389, a tool's command) raises
\* UnexpectedAlertPresentException outside the try of lines 358-370, and
\* "except Exception" (line 440) takes it.
AlertCrash(w) ==
    /\ InLoop(w)
    /\ EndTry(w, "Crashed", "UnexpectedAlertPresentException")
    /\ UNCHANGED <<storeVars, sel, job, claimCount, driver, iter, pad, ret, gprompt, gval,
                   gateVars, agentRunning, sideVars, uiVars, domVars>>

\* One worker on a site that opens native dialogs, at the head of an iteration or
\* inside it.
NextAlert ==
    \/ PageChange(1)
    \/ Acting(1)
    \/ AlertCrash(1)
    \/ Deciding(1)
    \/ Finally(1) \/ Report(1) \/ ReportFailure(1)

SpecAlert == InitGate /\ [][NextAlert]_vars

\* One worker thread from the start of the dashboard to the report of its jobs, with
\* the operator at the dashboard and the two model servers. The worker thread runs
\* whenever it can (RunLive), the dashboard is started and the operator answers every
\* request (Operator); enqueueing and the answers of the model servers are under no
\* obligation.
RunLive(w) == Claiming(w) \/ Deciding(w) \/ Intervening(w) \/ SendVision(w)

Operator == StartWorker(1) \/ UICheck \/ UISubmit

NextLive ==
    \/ Enqueue
    \/ RunLive(1)
    \/ Operator
    \/ VisionReturns(1)
    \/ LlmReturns(1)

SpecLive == Init /\ [][NextLive]_vars /\ WF_vars(RunLive(1)) /\ WF_vars(Operator)

\* ======================================================== credential_logic.ProfileManager

\* The passwords secrets.choice may produce, the profiles the dashboard form may
\* hold, the fields a tool may ask for.
Passwords == {"p1", "p2"}
Profiles == {[name |-> "John"], [name |-> "Jane"]}
Fields == {"name"}

\* tools.get_profile_data for a field other than "password":
\* profile.get(field, "[<field> not found in profile]"); {} has no field.
get_profile_data(field) ==
    IF user_profile = NoProfile THEN "not found in profile" ELSE user_profile[field]

\* Everything but the state of profile_manager.
ProfileRest ==
    UNCHANGED <<storeVars, pc, sel, job, claimCount, driver, flowVars, gateVars, agentRunning,
                uiVars, parseVars, waitVars, crawlVars>>

\* Dashboard lines 45-56: the Save Profile button calls save_profile with the form's
\* values, whatever the worker is doing; line 51 replaces user_profile.
SaveProfile ==
    /\ \E p \in Profiles \ {user_profile} : user_profile' = p
    /\ UNCHANGED <<master_password, pwPc, pwLocal, pwRet>>
    /\ ProfileRest

\* A thread s (the script run of a dashboard session at line 62, a worker's
\* Get_Profile_Data("password") at tools.py:93) calls get_master_password.
\* line 38: if not self.master_password
PwCall(s) ==
    /\ pwPc[s] = "idle"
    /\ pwPc' = [pwPc EXCEPT ![s] = IF master_password = None THEN "l20" ELSE "l40"]
    /\ UNCHANGED <<master_password, user_profile, pwLocal, pwRet>>
    /\ ProfileRest

\* line 40: return self.master_password
PwReturn40(s) ==
    /\ pwPc[s] = "l40"
    /\ pwRet' = pwRet \cup {master_password}
    /\ pwPc' = [pwPc EXCEPT ![s] = "idle"]
    /\ UNCHANGED <<master_password, user_profile, pwLocal>>
    /\ ProfileRest

\* line 20: if self.master_password
PwCheck20(s) ==
    /\ pwPc[s] = "l20"
    /\ pwPc' = [pwPc EXCEPT ![s] = IF master_password = None THEN "l23" ELSE "l21"]
    /\ UNCHANGED <<master_password, user_profile, pwLocal, pwRet>>
    /\ ProfileRest

\* line 21: return self.master_password
PwReturn21(s) ==
    /\ pwPc[s] = "l21"
    /\ pwRet' = pwRet \cup {master_password}
    /\ pwPc' = [pwPc EXCEPT ![s] = "idle"]
    /\ UNCHANGED <<master_password, user_profile, pwLocal>>
    /\ ProfileRest

\* lines 23-30: a password that meets the character rules is drawn.
PwGenerate(s) ==
    /\ pwPc[s] = "l23"
    /\ \E p \in Passwords : pwLocal' = [pwLocal EXCEPT ![s] = p]
    /\ pwPc' = [pwPc EXCEPT ![s] = "l32"]
    /\ UNCHANGED <<master_password, user_profile, pwRet>>
    /\ ProfileRest

\* line 32: self.master_password = password
PwAssign(s) ==
    /\ pwPc[s] = "l32"
    /\ master_password' = pwLocal[s]
    /\ pwPc' = [pwPc EXCEPT ![s] = "l34"]
    /\ UNCHANGED <<user_profile, pwLocal, pwRet>>
    /\ ProfileRest

\* line 34: return password
PwReturn34(s) ==
    /\ pwPc[s] = "l34"
    /\ pwRet' = pwRet \cup {pwLocal[s]}
    /\ pwLocal' = [pwLocal EXCEPT ![s] = None]
    /\ pwPc' = [pwPc EXCEPT ![s] = "idle"]
    /\ UNCHANGED <<master_password, user_profile>>
    /\ ProfileRest

get_master_password(s) ==
    \/ PwCall(s) \/ PwReturn40(s)
    \/ PwCheck20(s) \/ PwReturn21(s) \/ PwGenerate(s) \/ PwAssign(s) \/ PwReturn34(s)

\* One worker on its job, the dashboard's profile form, and two threads that ask for
\* the master password.
NextProfile ==
    \/ SaveProfile
    \/ \E s \in Workers : get_master_password(s)
    \/ Deciding(1)
    \/ Finally(1) \/ Report(1) \/ ReportFailure(1)

SpecProfile == InitGate /\ [][NextProfile]_vars

\* ======================================================== dom_parser.compress_dom

\* A document is a sequence of elements, an element a tag name with its type
\* attribute, its inline style and its text (the value of an input); an absent
\* attribute is "" or <<>>.
\* A style is a sequence of words; " " is one blank.
MaxElements == 2
Tags == {"input", "button", "div", "script"}
Types == {"", "text", "hidden"}
Styles ==
    { <<>>,
      <<"display", ":", " ", "none">>, <<"display", ":", "none">>,
      <<"DISPLAY", ":", " ", "NONE">>,
      <<"visibility", ":", " ", "hidden">>, <<"visibility", ":", "hidden">>,
      <<"display", ":", " ", "block">> }
Texts == {"", "Apply"}
Elements == [name : Tags, type : Types, style : Styles, text : Texts]
Documents == UNION {[1..n -> Elements] : n \in 0..MaxElements}

\* str.lower() and str.upper(), word by word.
LowerWord(word) ==
    CASE word = "DISPLAY" -> "display"
      [] word = "NONE" -> "none"
      [] OTHER -> word
lower(str) == [k \in 1..Len(str) |-> LowerWord(str[k])]
upper(word) ==
    CASE word = "input" -> "INPUT"
      [] word = "button" -> "BUTTON"
      [] word = "div" -> "DIV"
      [] OTHER -> "SCRIPT"

\* sub in str
InStr(sub, str) ==
    \E k \in 1..(Len(str) - Len(sub) + 1) : SubSeq(str, k, k + Len(sub) - 1) = sub

noise_tags == {"script"}
interactive_tags == {"input", "button"}

\* The test of the loop of compress_dom that skips an element.
Skipped(element) ==
    LET style == lower(element.style)
    IN  \/ InStr(<<"display", ":", " ", "none">>, style)
        \/ InStr(<<"visibility", ":", " ", "hidden">>, style)
        \/ element.type = "hidden"

\* A line is appended when the element has text (for an input without text, its
\* value) or a type attribute.
HasLine(element) == element.text # "" \/ element.type # ""

Line(doc, k) ==
    [xpath |-> k, el_type |-> upper(doc[k].name), type |-> doc[k].type, text |-> doc[k].text]

\* compress_dom: the lines of the elements of the interactive tags that are not
\* skipped, in document order.
RECURSIVE CompressFrom(_, _)
CompressFrom(doc, k) ==
    IF k > Len(doc) THEN <<>>
    ELSE IF /\ doc[k].name \notin noise_tags
            /\ doc[k].name \in interactive_tags
            /\ ~Skipped(doc[k])
            /\ HasLine(doc[k])
         THEN <<Line(doc, k)>> \o CompressFrom(doc, k + 1)
         ELSE CompressFrom(doc, k + 1)

compress_dom(html_source) == CompressFrom(html_source, 1)

\* A caller passes the page source to compress_dom.
Compress ==
    /\ ~summary.done
    /\ summary' = [done |-> TRUE, lines |-> compress_dom(html)]
    /\ UNCHANGED <<storeVars, pc, sel, job, claimCount, driver, flowVars, gateVars, uiVars,
                   agentRunning, profileVars, waitVars, crawlVars, html>>

InitDom ==
    /\ InitStore /\ InitAgents /\ InitProfile /\ InitWait /\ InitCrawl
    /\ html \in Documents
    /\ summary = NoSummary

NextDom == Compress

SpecDom == InitDom /\ [][NextDom]_vars

\* ======================================================== job_scraper.find_and_queue_jobs

\* The links of a careers page: the URL a link resolves to (full_url, lines 140-144)
\* and whether the link passes the filter of line 139 (an href, a text longer than
\* five characters that holds a keyword). The code stops at 15 added jobs.
MaxLinks == 3
MaxCrawlUrls == 3
MaxJobsAdded == 2
CrawlUrls == 1..MaxCrawlUrls
Links == [full_url : CrawlUrls, matches : BOOLEAN]
LinkLists == UNION {[1..n -> Links] : n \in 0..MaxLinks}

\* Everything but the job queue and the crawl.
CrawlRest ==
    UNCHANGED <<pc, sel, job, claimCount, driver, flowVars, gateVars, agentRunning, uiVars,
                profileVars, parseVars, waitVars>>

\* lines 61-131: the input is a direct URL or a domain whose careers page is looked
\* up; without a careers page the call returns 0 (line 116); otherwise the links of
\* the page are collected.
CrawlStart ==
    /\ crawl.pc = "idle"
    /\ \/ crawl' = [NoCrawl EXCEPT !.returned = 0]
       \/ \E d \in BOOLEAN, c \in CrawlUrls, l \in LinkLists :
             crawl' = [pc |-> "links", links |-> l, k |-> 1, jobs_added |-> 0,
                       is_direct_url |-> d, careers_url |-> c, returned |-> 0]
    /\ UNCHANGED storeVars
    /\ CrawlRest

\* Mutant: jobs_added is incremented whatever add_job_to_queue returns.
CrawlLink_CountAll ==
    /\ crawl.pc = "links"
    /\ crawl.k <= Len(crawl.links)
    /\ LET link == crawl.links[crawl.k]
       IN  IF link.matches
              THEN /\ add_job_to_queue(link.full_url)
                   /\ crawl' = [crawl EXCEPT !.jobs_added = @ + 1,
                                             !.k = @ + 1,
                                             !.pc = IF crawl.jobs_added + 1 >= MaxJobsAdded
                                                       THEN "fallback" ELSE "links"]
              ELSE /\ crawl' = [crawl EXCEPT !.k = @ + 1]
                   /\ UNCHANGED storeVars
    /\ CrawlRest

\* lines 135-152: one link of the loop; a link that passes the filter is handed to
\* add_job_to_queue and counted when it was added; the loop breaks at the cap.
CrawlLink ==
    /\ crawl.pc = "links"
    /\ crawl.k <= Len(crawl.links)
    /\ LET link == crawl.links[crawl.k]
       IN  IF link.matches
              THEN /\ add_job_to_queue(link.full_url)
                   /\ IF lastEnq'.added
                         THEN crawl' = [crawl EXCEPT !.jobs_added = @ + 1,
                                                     !.k = @ + 1,
                                                     !.pc = IF crawl.jobs_added + 1 >= MaxJobsAdded
                                                               THEN "fallback" ELSE "links"]
                         ELSE crawl' = [crawl EXCEPT !.k = @ + 1]
              ELSE /\ crawl' = [crawl EXCEPT !.k = @ + 1]
                   /\ UNCHANGED storeVars
    /\ CrawlRest

\* The for loop of line 135 is exhausted.
CrawlLinksDone ==
    /\ crawl.pc = "links"
    /\ crawl.k > Len(crawl.links)
    /\ crawl' = [crawl EXCEPT !.pc = "fallback"]
    /\ UNCHANGED storeVars
    /\ CrawlRest

\* lines 155-160: nothing was added and the input was a direct URL: the URL itself is
\* queued, and counted when it was added.
CrawlFallback ==
    /\ crawl.pc = "fallback"
    /\ IF crawl.jobs_added = 0 /\ crawl.is_direct_url
          THEN /\ add_job_to_queue(crawl.careers_url)
               /\ crawl' = [crawl EXCEPT !.jobs_added = IF lastEnq'.added THEN 1 ELSE 0,
                                         !.pc = "return"]
          ELSE /\ crawl' = [crawl EXCEPT !.pc = "return"]
               /\ UNCHANGED storeVars
    /\ CrawlRest

\* line 162: return jobs_added
CrawlReturn ==
    /\ crawl.pc = "return"
    /\ crawl' = [NoCrawl EXCEPT !.returned = crawl.jobs_added]
    /\ UNCHANGED storeVars
    /\ CrawlRest

\* lines 164-166: an exception of the browser or the parser inside the try: the
\* count reached so far is returned.
CrawlError ==
    /\ crawl.pc \in {"links", "fallback"}
    /\ crawl' = [NoCrawl EXCEPT !.returned = crawl.jobs_added]
    /\ UNCHANGED storeVars
    /\ CrawlRest

find_and_queue_jobs ==
    CrawlStart \/ CrawlLink \/ CrawlLinksDone \/ CrawlFallback \/ CrawlReturn \/ CrawlError

\* The crawler of the dashboard's Scrape tab fills a queue that is empty or holds a
\* job already; the clock advances.
InitCrawlQueue ==
    /\ InitAgents /\ InitProfile /\ InitParse /\ InitWait /\ InitCrawl
    /\ now = 0
    /\ \E n \in 0..1 :
          /\ jobs = [i \in 1..n |->
                       [url |-> i, status |-> "PENDING", logs |-> <<>>, created_at |-> 0, updated_at |-> 0]]
          /\ lastEnq = [url |-> n, added |-> n > 0]
          /\ enqSeen = 1..n

NextCrawl == find_and_queue_jobs

SpecCrawl == InitCrawlQueue /\ [][NextCrawl]_vars

\* ======================================================== properties

Terminal == {"SUCCESS", "FAILED"}

\* phrase occurs in text.
Contains(text, phrase) ==
    \E k \in 1..(Len(text) - Len(phrase) + 1) : SubSeq(text, k, k + Len(phrase) - 1) = phrase

\* The last line of a text.
LastLine(text) ==
    LET breaks == {k \in 1..Len(text) : text[k] = "\n"}
        from == IF breaks = {} THEN 1 ELSE 1 + CHOOSE k \in breaks : \A m \in breaks : m <= k
    IN  SubSeq(text, from, Len(text))

\* Worker w is back at the head of its while loop after a run that ended `how`, and
\* still holds the id of the job it ran.
Reported(w, how) == pc[w] = "poll" /\ job[w] # NoJob /\ outcome[w].how = how

\* C1: whatever the interleaving of the SELECT and UPDATE steps of concurrent
\* get_next_pending_job calls, no job id is returned more than once.
C1_EachJobClaimedOnce == \A i \in 1..MaxUrls : claimCount[i] <= 1

\* C2: a run the decision engine ended with a Finish returns True and its job is
\* set to SUCCESS; a run returns False only after a timeout or a crash.
C2_FinishReportsSuccess ==
    \A w \in Workers :
        /\ pc[w] \in {"report", "mark_failed"} => (ret[w] <=> outcome[w].how = "Finished")
        /\ Reported(w, "Finished") => jobs[job[w].id].status = "SUCCESS"

\* C3: in every step every job's status stays or moves forward along
\* PENDING -> IN_PROGRESS -> {SUCCESS, FAILED}.
Rank(st) == CASE st = "PENDING" -> 0 [] st = "IN_PROGRESS" -> 1 [] OTHER -> 2

C3_StatusMonotonic ==
    [][\A i \in Ids :
          /\ Rank(jobs'[i].status) >= Rank(jobs[i].status)
          /\ jobs[i].status \in Terminal => jobs'[i].status = jobs[i].status]_vars

C5_MalformedThenFinishSucceeds ==
    /\ [][\A w \in Workers :
            Len(pad'[w]) = Len(pad[w]) + 1 /\ pad'[w][Len(pad'[w])] = "parse"
                => iter'[w] = iter[w] + 1 /\ pc'[w] = "loop"]_vars
    /\ [](\A w \in Workers :
            /\ pc[w] \in {"report", "mark_failed"} /\ outcome[w].how = "Finished"
                   /\ outcome[w].parse = outcome[w].iters => ret[w]
            /\ Reported(w, "Finished") /\ outcome[w].parse = outcome[w].iters
                   => jobs[job[w].id].status = "SUCCESS")

C9_GateReturnsValueAndClears ==
    \A w \in Workers :
        pc[w] = "g216" =>
            /\ submitted # None
            /\ gval[w] \in Inputs
            /\ requires = FALSE /\ prompt = "" /\ value = None

\* C10: while the request of one worker is pending (set up, not yet answered), the
\* set-up writes of another call change neither the prompt nor the value.
C10_PendingRequestNotOverwritten ==
    [][\A w \in Workers :
          /\ pc[w] \in {"g200", "g201", "g202"}
          /\ pc'[w] # pc[w]
          /\ \E v \in Workers \ {w} : pc[v] = "g205"
          => prompt' = prompt /\ value' = value]_vars

\* Worker w is inside request_manual_intervention.
InGate(w) == pc[w] \in {"g200", "g201", "g202", "g205", "g208", "g211", "g212", "g213", "g216"}

\* C11: every value a call of request_manual_intervention reads is a dashboard write
\* that no call has read before (one supplied value is returned by at most one
\* call), and while no call is in progress the shared request is empty.
C11_ResolvedExactlyOnce ==
    /\ [][\A w \in Workers :
            pc[w] = "g208" /\ pc'[w] = "g211" => unread /\ value \in Inputs]_vars
    /\ []((\A w \in Workers : ~InGate(w)) => requires = FALSE /\ prompt = "" /\ value = None)

\* C12: a worker waiting in the gate for a job that has been marked FAILED
\* eventually stops waiting, whether or not a value is ever supplied.
C12_AbortCancelsWait ==
    \A w \in Workers :
        (pc[w] = "g205" /\ jobs[job[w].id].status = "FAILED") ~> (pc[w] # "g205")

\* C13: a call of get_next_pending_job in which the store raised does not end like a
\* call that found the queue empty (None returned, the worker back to polling).
C13_StoreErrorSurfaced ==
    [][\A w \in Workers :
          ClaimSelectError(w) \/ ClaimUpdateError(w)
              => ~(job'[w] = NoJob /\ pc'[w] = "poll")]_vars

\* C14: whatever tool and input the decision names, the dispatch appends one
\* observation and the run stays in the loop; no dispatch ends the run as Crashed.
C14_NoToolThrows ==
    [][\A w \in Workers, t \in ToolNames, a \in ToolInputs :
          ActOn(w, t, a) =>
              /\ pc'[w] = "loop"
              /\ Len(pad'[w]) = Len(pad[w]) + 1
              /\ outcome'[w].how # "Crashed"]_vars

\* The tools that act on an element, and the id their input names.
ElementTools == {"Click_Element_By_ID", "Type_Text_By_ID", "Upload_File_By_ID"}
TargetId(t, a) == IF t = "Click_Element_By_ID" THEN Strip(a) ELSE Strip(Split(a)[1])

\* A decision naming a tool outside the catalogue, or a tool input that is not of
\* the tool's format ('id' for a click, 'id|text' for typing and uploading).
BadDecision(t, a) ==
    \/ t \notin Catalogue
    \/ t = "Click_Element_By_ID" /\ Len(Split(a)) # 1
    \/ t \in {"Type_Text_By_ID", "Upload_File_By_ID"} /\ Len(Split(a)) < 2

\* C15: a decision that cannot be parsed, names a tool outside the catalogue or
\* carries malformed input appends exactly one observation, consumes exactly one
\* iteration, acts on no element and leaves the run in the loop.
C15_BadDecisionIsObservation ==
    [][\A w \in Workers :
          (ParseError(w) \/ \E t \in ToolNames, a \in ToolInputs : BadDecision(t, a) /\ ActOn(w, t, a))
              => /\ pc'[w] = "loop"
                 /\ Len(pad'[w]) = Len(pad[w]) + 1
                 /\ SubSeq(pad'[w], 1, Len(pad[w])) = pad[w]
                 /\ iter'[w] = iter[w] + 1
                 /\ acted'[w] = <<>> \/ acted'[w] = acted[w]]_vars

\* C16: a click, type or upload whose call returns is resolved in the map captured
\* from the page in the same iteration: an id of that map is the element acted on,
\* an id outside it yields the unknown-id observation and no element is acted on.
C16_ResolvedInCurrentMap ==
    [][\A w \in Workers, t \in ElementTools, a \in ToolInputs :
          ActOn(w, t, a) /\ pc'[w] = "loop" =>
              /\ raw_som_map'[w] = page[w]
              /\ TargetId(t, a) \in raw_som_map'[w] =>
                    acted'[w] = TargetId(t, a) /\ pad'[w][Len(pad'[w])] = "acted"
              /\ TargetId(t, a) \notin raw_som_map'[w] =>
                    acted'[w] = <<>> /\ pad'[w][Len(pad'[w])] = "unknown_id"]_vars

C16_Witness ==
    \E w \in Workers :
        /\ pc[w] = "loop"
        /\ pad[w] = <<"acted", "unknown_id">>
        /\ raw_som_map[w] = {}
        /\ acted[w] = <<>>

\* C17: from the failure report of a job to the start of the next one the worker
\* holds no browser session, every job starts without one, and every job runs its
\* loop on a session created for it.
C17_TeardownBeforeNextClaim ==
    \A w \in Workers :
        /\ pc[w] \in {"mark_failed", "poll", "claim_update"}
              /\ outcome[w].how \in {"Crashed", "Timeout"} => ~driver[w]
        /\ pc[w] = "flow_start" => ~driver[w]
        /\ pc[w] = "loop" \/ InGate(w) => driver[w]

C17_Witness ==
    \E w \in Workers : \E i \in Ids :
        /\ pc[w] = "loop"
        /\ driver[w]
        /\ job[w].id # i
        /\ jobs[i].status = "FAILED"

C19_EnqueueClaimFinish ==
    \A w \in Workers :
        /\ pc[w] = "flow_start" =>
              /\ job[w].id \in Ids
              /\ job[w].url \in enqSeen
              /\ jobs[job[w].id].url = job[w].url
              /\ jobs[job[w].id].status = "IN_PROGRESS"
        /\ Reported(w, "Finished") =>
              /\ jobs[job[w].id].status = "SUCCESS"
              /\ Contains(jobs[job[w].id].logs, <<outcome[w].text>>)

\* The places of a run at which agent_scratchpad exists.
RunPcs == {"loop", "g200", "g201", "g202", "g205", "g208", "g211", "g212", "g213", "g216"}

\* C20: every step of a run leaves the scratchpad a prefix of the new scratchpad,
\* and every run enters its loop with an empty scratchpad.
C20_ScratchpadAppendOnly ==
    [][\A w \in Workers :
          /\ pc[w] \in RunPcs /\ pc'[w] \in RunPcs \cup {"finally"} =>
                /\ Len(pad'[w]) >= Len(pad[w])
                /\ SubSeq(pad'[w], 1, Len(pad[w])) = pad[w]
          /\ pc[w] = "flow_start" /\ pc'[w] = "loop" => pad'[w] = <<>>]_vars

C20_Witness ==
    \E w \in Workers : \E i \in Ids :
        /\ pc[w] = "loop"
        /\ Len(pad[w]) = max_iterations
        /\ pad[w][1] # pad[w][2]
        /\ job[w].id # i
        /\ jobs[i].status = "FAILED"

\* C21: a step that gives a job a terminal status leaves the job's earlier log a
\* proper prefix of its new log, whose last line is the message of the update, and
\* changes no other row, no url and no creation time.
C21_StatusUpdateAppends ==
    [][\A i \in Ids :
          jobs'[i] # jobs[i] /\ jobs'[i].status \in Terminal =>
              /\ Len(jobs') = Len(jobs)
              /\ \A k \in Ids \ {i} : jobs'[k] = jobs[k]
              /\ Len(jobs'[i].logs) > Len(jobs[i].logs)
              /\ SubSeq(jobs'[i].logs, 1, Len(jobs[i].logs)) = jobs[i].logs
              /\ LastLine(jobs'[i].logs) \in {MsgSuccess, MsgFailed, MsgAborted}
              /\ jobs'[i].url = jobs[i].url
              /\ jobs'[i].created_at = jobs[i].created_at]_vars

C21_Witness ==
    \E i \in Ids :
        /\ jobs[i].status = "FAILED"
        /\ jobs[i].logs = MsgFailed \o <<"\n">> \o MsgFailed

\* The place of row i in the list L.
Pos(L, i) == CHOOSE k \in 1..Len(L) : L[k] = i

RECURSIVE NoBlanks(_)
NoBlanks(str) ==
    IF str = <<>> THEN <<>>
    ELSE IF Head(str) = " " THEN NoBlanks(Tail(str))
    ELSE <<Head(str)>> \o NoBlanks(Tail(str))

HidesElement(element) ==
    \/ element.type = "hidden"
    \/ InStr(<<"display", ":", "none">>, NoBlanks(lower(element.style)))
    \/ InStr(<<"visibility", ":", "hidden">>, NoBlanks(lower(element.style)))

\* C23: no line of the summary of a page belongs to an element whose type is hidden
\* or whose inline style sets display:none or visibility:hidden, with or without a
\* blank after the colon.
C23_NoHiddenElementInSummary ==
    summary.done =>
        \A k \in 1..Len(summary.lines) : ~HidesElement(html[summary.lines[k].xpath])

\* C24: a request to the vision model or to the decision engine ends: a worker
\* waiting for a response goes on.
C24_ModelRequestsEnd ==
    \A w \in Workers : pc[w] \in {"vision_wait", "llm_wait"} ~> pc[w] \notin {"vision_wait", "llm_wait"}

\* C25: every call of get_master_password returns the same value.
C25_OnePasswordForTheRun == Cardinality(pwRet) <= 1

\* C26: while a worker holds a job that has no terminal status, the profile values
\* its tools read do not change.
C26_ProfileReadOnlyDuringRun ==
    [][\A w \in Workers :
          pc[w] \in RunPcs /\ jobs[job[w].id].status = "IN_PROGRESS" =>
              \A f \in Fields : get_profile_data(f)' = get_profile_data(f)]_vars

\* C27: a dialog found at the head of an iteration is accepted and recorded as one
\* observation, before any snapshot is taken and with the loop going on; and no run
\* ends Crashed because of a native dialog.
C27_DialogNeverCrashes ==
    /\ [][\A w \in Workers :
            HandleAlert(w) =>
                /\ pad'[w] = Append(pad[w], "alert")
                /\ raw_som_map'[w] = raw_som_map[w]
                /\ pc'[w] = "loop"]_vars
    /\ [](\A w \in Workers :
            ~(outcome[w].how = "Crashed" /\ outcome[w].text = "UnexpectedAlertPresentException"))

C29_SubmitNotWipedBySetup ==
    [][uiPc = "armed" /\ uiPc' = "idle" /\ requires =>
          \A w \in Workers : pc[w] \notin {"g201", "g202"}]_vars

\* C30: a worker that is about to call get_next_pending_job has left none of the
\* jobs claimed before IN_PROGRESS: each of them is SUCCESS or FAILED in the store.
C30_NoJobLeftInProgress ==
    \A w \in Workers :
        pc[w] = "poll" => \A i \in Ids : claimCount[i] >= 1 => jobs[i].status \in Terminal

\* C33: the record get_next_pending_job hands to the worker carries the status the
\* store holds for that job at the return of the call, IN_PROGRESS.
C33_ClaimedRecordIsInProgress ==
    \A w \in Workers :
        pc[w] = "flow_start" =>
            /\ job[w].status = "IN_PROGRESS"
            /\ job[w].status = jobs[job[w].id].status

\* C35: at most one worker thread runs launch_agent_thread at any time, whatever
\* dashboard session the Start button is pressed in.
C35_OneWorkerThread == Cardinality({w \in Workers : pc[w] # "off"}) <= 1

\* C35 (amended): a dashboard session launches at most one worker thread: a thread
\* is launched only by a session whose agent_running flag is not set and that has
\* no thread, the launch sets the flag, and the flag is never reset.
C35_OneWorkerPerSession ==
    [][\A s \in Workers :
          /\ StartWorker(s) \/ agentRunning'[s] # agentRunning[s] =>
                /\ ~agentRunning[s]
                /\ pc[s] = "off"
                /\ agentRunning'[s]
                /\ pc'[s] = "poll"
          /\ pc[s] # "off" => agentRunning[s] /\ pc'[s] # "off"]_vars

C35_Witness ==
    /\ \A s \in Workers : agentRunning[s]
    /\ pc[1] = "claim_update"
    /\ pc[2] = "flow_start"

C34_VisionFailureGoesOn ==
    [][\A w \in Workers :
          pc[w] = "vision_wait" /\ pc'[w] # "vision_wait" =>
              /\ pc'[w] = "llm_wait"
              /\ outcome'[w] = outcome[w]
              /\ jobs'[job[w].id].status = "IN_PROGRESS"
              /\ IF vision'[w].res.success
                    THEN vision'[w].summary = vision'[w].res.raw_response
                    ELSE vision'[w].summary = "Failed to get vision summary."]_vars

C34_Witness ==
    \E w \in Workers :
        /\ pc[w] = "loop"
        /\ answered[w] = iter[w] + 1
        /\ ~vision[w].res.success
        /\ vision[w].summary = "Failed to get vision summary."
        /\ jobs[job[w].id].status = "IN_PROGRESS"

\* C36: a call of find_and_queue_jobs never counts more than the cap; every step of
\* the call raises its count by the number of rows the step added to the queue, so a
\* link whose URL is queued already is not counted; the direct URL is queued only
\* when the count is 0 and the input was a direct URL; the call returns its count.
C36_CrawlCountsAddedRows ==
    /\ [](crawl.jobs_added <= MaxJobsAdded /\ crawl.returned <= MaxJobsAdded)
    /\ [][crawl.pc \in {"links", "fallback"} /\ crawl'.pc # "idle" =>
             /\ crawl'.jobs_added - crawl.jobs_added = Len(jobs') - Len(jobs)
             /\ Len(jobs') - Len(jobs) \in {0, 1}]_vars
    /\ [][crawl.pc = "links" /\ crawl'.pc # "idle" /\ crawl.k <= Len(crawl.links)
             /\ UrlTaken(crawl.links[crawl.k].full_url) =>
                 crawl'.jobs_added = crawl.jobs_added /\ jobs' = jobs]_vars
    /\ [][crawl.pc = "fallback" /\ jobs' # jobs =>
             /\ crawl.jobs_added = 0
             /\ crawl.is_direct_url
             /\ jobs'[Len(jobs')].url = crawl.careers_url]_vars
    /\ [][crawl.pc # "idle" /\ crawl'.pc = "idle" =>
             crawl'.returned = crawl.jobs_added /\ jobs' = jobs]_vars

C36_Witness ==
    /\ crawl.pc = "idle"
    /\ crawl.returned = MaxJobsAdded
    /\ Len(jobs) = MaxCrawlUrls
    /\ lastEnq.added

\* C31: once a worker runs, every job in the queue gets a terminal status, and a
\* worker that has taken a job comes back to polling.
C31_EveryJobFinishes ==
    /\ \A i \in 1..MaxUrls :
          (i \in Ids /\ agentRunning[1]) ~> (i \in Ids /\ jobs[i].status \in Terminal)
    /\ \A w \in Workers : pc[w] = "flow_start" ~> pc[w] = "poll"
====
